---- MODULE Spec2Model ----
(***************************************************************************)
(* Model of the transformation core of the weekly shopping list app        *)
(* (src/weekly_shopping_list_web_app_react.jsx): the CSV codec, the        *)
(* category normaliser, the freeform line importer, the consolidator and   *)
(* the handlers that change the working item collection.                   *)
(*                                                                         *)
(* A JavaScript string is modelled as a sequence of one-character strings, *)
(* so that trimming, splitting, lower-casing, quoting and parsing are      *)
(* computed character by character, as the code computes them.             *)
(***************************************************************************)
EXTENDS Integers, Sequences, FiniteSets, TLC

VARIABLES
    items,       \* useState<Item[]>: the working item collection
    categories,  \* useState<string[]>: the ordered category list
    nextUid,     \* the next identifier uid() hands out
    clock,       \* the value Date.now() returns to the running handler
    last         \* observation of the last handler run: its name, input, result

vars == <<items, categories, nextUid, clock, last>>

----------------------------------------------------------------------------
(* Characters and strings *)

Uppers == <<"A","B","C","D","E","F","G","H","I","J","K","L","M",
            "N","O","P","Q","R","S","T","U","V","W","X","Y","Z">>

Lowers == <<"a","b","c","d","e","f","g","h","i","j","k","l","m",
            "n","o","p","q","r","s","t","u","v","w","x","y","z">>

Digits == <<"0","1","2","3","4","5","6","7","8","9">>

Range(f) == { f[i] : i \in DOMAIN f }

\* the value of an absent property or array element
Undefined == <<"undefined">>

\* JavaScript truthiness of a string-or-undefined value
Truthy(v) == v # <<>> /\ v # Undefined

\* a || b
OrElse(a, b) == IF Truthy(a) THEN a ELSE b

\* a ?? b
Coalesce(a, b) == IF a = Undefined THEN b ELSE a

IsSpace(c) == c \in {" ", "\t", "\n", "\r"}

IsDigit(c) == c \in Range(Digits)

IsAlpha(c) == c \in Range(Uppers) \cup Range(Lowers)

\* what . matches in a regular expression without the s flag
IsDot(c) == c \notin {"\n", "\r"}

ToLowerChar(c) ==
    IF c \in Range(Uppers)
    THEN Lowers[CHOOSE i \in DOMAIN Uppers : Uppers[i] = c]
    ELSE c

ToLowerCase(s) == [i \in 1..Len(s) |-> ToLowerChar(s[i])]

RECURSIVE TrimStart(_)
TrimStart(s) ==
    IF s # <<>> /\ IsSpace(Head(s)) THEN TrimStart(Tail(s)) ELSE s

RECURSIVE TrimEnd(_)
TrimEnd(s) ==
    IF s # <<>> /\ IsSpace(s[Len(s)]) THEN TrimEnd(SubSeq(s, 1, Len(s) - 1)) ELSE s

Trim(s) == TrimEnd(TrimStart(s))

\* array.filter(Boolean) on an array of strings
FilterBoolean(a) == SelectSeq(a, Truthy)

RECURSIVE Join(_, _)
Join(a, sep) ==
    IF a = <<>> THEN <<>>
    ELSE IF Len(a) = 1 THEN Coalesce(a[1], <<>>)
    ELSE Coalesce(a[1], <<>>) \o sep \o Join(Tail(a), sep)

\* the character classes the code's regular expressions and scans use;
\* any other class name is a separator character, and the class is "not it"
InClass(c, cls) ==
    CASE cls = "\\s" -> IsSpace(c)
      [] cls = "\\d" -> IsDigit(c)
      [] cls = "[\\d/.]" -> IsDigit(c) \/ c \in {"/", "."}
      [] cls = "[a-zA-Z]" -> IsAlpha(c)
      [] OTHER -> c # cls

\* the length of the longest prefix of s whose characters are all in cls
RECURSIVE SpanLen(_, _)
SpanLen(s, cls) ==
    IF s # <<>> /\ InClass(Head(s), cls) THEN 1 + SpanLen(Tail(s), cls) ELSE 0

Drop(s, n) == SubSeq(s, n + 1, Len(s))

Take(s, n) == SubSeq(s, 1, n)

\* s.split(sep) for a one-character separator: every piece, in order
RECURSIVE SplitChar(_, _)
SplitChar(s, sep) ==
    LET n == SpanLen(s, sep)
    IN  IF n = Len(s) THEN <<s>>
        ELSE <<Take(s, n)>> \o SplitChar(Drop(s, n + 1), sep)

\* position i of an array, undefined beyond its end (destructuring, indexing)
At(a, i) == IF i \in DOMAIN a THEN a[i] ELSE Undefined

\* text[i]: the character at position i, undefined beyond the end
CharAt(text, i) == IF i \in DOMAIN text THEN text[i] ELSE "undefined"

S_Other == <<"O","t","h","e","r">>

S_Semi == <<";"," ">>

----------------------------------------------------------------------------
(* Numbers: parseFloat and String(number).                                 *)
(* A number is NaN or a non-negative decimal m / 10^e.  The quantities the *)
(* model feeds to the consolidator are integers and halves, on which       *)
(* IEEE-754 addition is exact and String() prints the exact decimal.       *)

NaN == [nan |-> TRUE, m |-> 0, e |-> 0]

Num(m, e) == [nan |-> FALSE, m |-> m, e |-> e]

DigitVal(c) == (CHOOSE i \in DOMAIN Digits : Digits[i] = c) - 1

RECURSIVE DigitsVal(_)
DigitsVal(s) ==
    IF s = <<>> THEN 0 ELSE 10 * DigitsVal(Take(s, Len(s) - 1)) + DigitVal(s[Len(s)])

RECURSIVE Pow10(_)
Pow10(n) == IF n = 0 THEN 1 ELSE 10 * Pow10(n - 1)

\* parseFloat: leading white space skipped, then the longest prefix that is
\* digits, optionally a point and digits; NaN when that prefix has no digit
ParseFloat(s) ==
    LET t  == TrimStart(s)
        ni == SpanLen(t, "\\d")
        r  == Drop(t, ni)
        nf == IF r # <<>> /\ Head(r) = "." THEN SpanLen(Tail(r), "\\d") ELSE 0
        fr == IF nf = 0 THEN <<>> ELSE Take(Tail(r), nf)
    IN  IF ni + nf = 0 THEN NaN
        ELSE Num(DigitsVal(Take(t, ni)) * Pow10(nf) + DigitsVal(fr), nf)

NumAdd(a, b) ==
    IF a.nan \/ b.nan THEN NaN
    ELSE IF a.e >= b.e THEN Num(a.m + b.m * Pow10(a.e - b.e), a.e)
    ELSE Num(a.m * Pow10(b.e - a.e) + b.m, b.e)

RECURSIVE NatToString(_)
NatToString(n) ==
    IF n < 10 THEN <<Digits[n + 1]>>
    ELSE NatToString(n \div 10) \o <<Digits[(n % 10) + 1]>>

RECURSIVE FracToString(_, _)
FracToString(f, e) ==
    IF e = 0 THEN <<>>
    ELSE FracToString(f \div 10, e - 1) \o <<Digits[(f % 10) + 1]>>

\* String(x): no trailing zeros in the fraction, no point for an integer
RECURSIVE NumToString(_)
NumToString(x) ==
    IF x.nan THEN <<"N","a","N">>
    ELSE IF x.e > 0 /\ x.m % 10 = 0 THEN NumToString(Num(x.m \div 10, x.e - 1))
    ELSE IF x.e = 0 THEN NatToString(x.m)
    ELSE NatToString(x.m \div Pow10(x.e)) \o <<".">>
         \o FracToString(x.m % Pow10(x.e), x.e)

----------------------------------------------------------------------------
(* Consolidator: consolidateDuplicates *)

\* a slip in Key: the quantity takes the category's place
KeyByQuantity(it) == ToLowerCase(OrElse(it.name, <<>>)) \o <<"|">>
                     \o ToLowerCase(OrElse(it.quantity, <<>>))

Key(it) == ToLowerCase(OrElse(it.name, <<>>)) \o <<"|">>
           \o ToLowerCase(OrElse(it.category, <<>>))

\* a slip in SumQuantity: + on the strings instead of on the numbers
ConcatQuantity(x, y) == x \o y

\* String(a + b) of the two parsed quantities
SumQuantity(x, y) == NumToString(NumAdd(ParseFloat(x), ParseFloat(y)))

\* the else branch of the loop body: the incoming item it merged into cur
\* the composed quantity and unit of the incoming item
Composed(it) ==
    IF Truthy(it.quantity) /\ Truthy(it.unit)
    THEN it.quantity \o <<" ">> \o it.unit
    ELSE OrElse(it.quantity, <<>>)

\* the kept notes when units differ or a quantity is missing
OtherNotes(cur, it) ==
    Join(FilterBoolean(<<cur.notes, Composed(it), it.notes>>), S_Semi)

MergeInto(cur, it) ==
    LET numeric == Truthy(cur.quantity) /\ Truthy(it.quantity) /\ cur.unit = it.unit
        a == ParseFloat(cur.quantity)
        b == ParseFloat(it.quantity)
        q == IF numeric /\ ~a.nan /\ ~b.nan
             THEN SumQuantity(cur.quantity, it.quantity) ELSE cur.quantity
        n == IF numeric
             THEN IF ~a.nan /\ ~b.nan THEN cur.notes
                  ELSE Join(FilterBoolean(<<cur.notes, it.quantity>>), S_Semi)
             ELSE OtherNotes(cur, it)
    IN  [cur EXCEPT !.quantity = q, !.notes = n,
                    !.have = cur.have /\ it.have,
                    !.checked = cur.checked /\ it.checked]

\* the Map after the loop has processed its[1..n]: entries in insertion order
RECURSIVE ConsolidateMap(_, _)
ConsolidateMap(its, n) ==
    IF n = 0 THEN <<>>
    ELSE LET map == ConsolidateMap(its, n - 1)
             it  == its[n]
             k   == Key(it)
         IN  IF \A j \in DOMAIN map : map[j].k # k
             THEN Append(map, [k |-> k, v |-> it])
             ELSE [j \in DOMAIN map |->
                      IF map[j].k = k
                      THEN [k |-> k, v |-> MergeInto(map[j].v, it)]
                      ELSE map[j]]

\* Array.from(map.values())
Consolidated(its) ==
    LET map == ConsolidateMap(its, Len(its)) IN [j \in DOMAIN map |-> map[j].v]

ConsolidateDuplicates ==
    /\ items' = Consolidated(items)
    /\ last' = [op |-> "consolidateDuplicates", before |-> items]
    /\ UNCHANGED <<categories, nextUid, clock>>

----------------------------------------------------------------------------
(* Constants of the program *)

DEFAULT_CATEGORIES == <<
    <<"P","r","o","d","u","c","e">>,
    <<"D","a","i","r","y">>,
    <<"M","e","a","t"," ","&"," ","S","e","a","f","o","o","d">>,
    <<"D","e","l","i">>,
    <<"B","a","k","e","r","y">>,
    <<"F","r","o","z","e","n">>,
    <<"D","r","y"," ","G","o","o","d","s"," ","/"," ","P","a","n","t","r","y">>,
    <<"B","e","v","e","r","a","g","e","s">>,
    <<"H","o","u","s","e","h","o","l","d">>,
    <<"O","t","h","e","r">> >>

S_TRUE == <<"T","R","U","E">>

S_FALSE == <<"F","A","L","S","E">>

\* the column names toCSV writes and importCSV reads
H_name == <<"n","a","m","e">>

H_item == <<"i","t","e","m">>

H_product == <<"p","r","o","d","u","c","t">>

H_ingredient == <<"i","n","g","r","e","d","i","e","n","t">>

H_qty == <<"q","t","y">>

H_quantity == <<"q","u","a","n","t","i","t","y">>

H_amount == <<"a","m","o","u","n","t">>

H_unit == <<"u","n","i","t">>

H_units == <<"u","n","i","t","s">>

H_category == <<"c","a","t","e","g","o","r","y">>

H_section == <<"s","e","c","t","i","o","n">>

H_aisle == <<"a","i","s","l","e">>

H_dept == <<"d","e","p","t">>

H_notes == <<"n","o","t","e","s">>

H_note == <<"n","o","t","e">>

H_details == <<"d","e","t","a","i","l","s">>

H_have == <<"h","a","v","e">>

H_checked == <<"c","h","e","c","k","e","d">>

----------------------------------------------------------------------------
(* CSV codec: toCSV and parseCSV *)

\* a slip in DoubleQuotes: quotes inside a field are left single
SingleQuotes(s) == s

\* String(v).replaceAll('"', '""')
RECURSIVE DoubleQuotes(_)
DoubleQuotes(s) ==
    IF s = <<>> THEN <<>>
    ELSE IF Head(s) = "\"" THEN <<"\"", "\"">> \o DoubleQuotes(Tail(s))
    ELSE <<Head(s)>> \o DoubleQuotes(Tail(s))

CsvField(v) == <<"\"">> \o DoubleQuotes(v) \o <<"\"">>

CsvRow(it) ==
    Join(<< CsvField(Coalesce(it.name, <<>>)),
            CsvField(Coalesce(it.quantity, <<>>)),
            CsvField(Coalesce(it.unit, <<>>)),
            CsvField(Coalesce(it.category, <<>>)),
            CsvField(Coalesce(it.notes, <<>>)),
            CsvField(IF it.have THEN S_TRUE ELSE S_FALSE),
            CsvField(IF it.checked THEN S_TRUE ELSE S_FALSE) >>, <<",">>)

CsvHeader == <<H_name, H_quantity, H_unit, H_category, H_notes, H_have, H_checked>>

toCSV(its) ==
    Join(<<Join(CsvHeader, <<",">>)>> \o [j \in DOMAIN its |-> CsvRow(its[j])],
         <<"\n">>)

\* the scanner's state before it has read anything; i is the next position
ScanInit == [i |-> 1, field |-> <<>>, inQuotes |-> FALSE, row |-> <<>>, rows |-> <<>>]

pushField(st) == [st EXCEPT !.row = Append(st.row, st.field), !.field = <<>>]

pushRow(st) == [st EXCEPT !.rows = Append(st.rows, st.row), !.row = <<>>]

\* a scanner that starts a row at every line terminator
StartsRowAlways(st) == TRUE

\* row.length > 1 || rows.length === 0, read once the field is pushed
StartsRow(st) == Len(st.row) > 1 \/ Len(st.rows) = 0

\* one turn of the while loop
ScanStep(text, st) ==
    LET c   == text[st.i]
        nxt == CharAt(text, st.i + 1)
        s1  == [st EXCEPT !.i = st.i + 1]
    IN  IF st.inQuotes
        THEN IF c = "\""
             THEN IF nxt = "\""
                  THEN [s1 EXCEPT !.field = Append(st.field, "\""), !.i = st.i + 2]
                  ELSE [s1 EXCEPT !.inQuotes = FALSE]
             ELSE [s1 EXCEPT !.field = Append(st.field, c)]
        ELSE IF c = "\"" THEN [s1 EXCEPT !.inQuotes = TRUE]
        ELSE IF c = "," THEN pushField(s1)
        ELSE IF c = "\n" \/ c = "\r"
             THEN LET s2 == IF c = "\r" /\ nxt = "\n"
                            THEN [s1 EXCEPT !.i = st.i + 2] ELSE s1
                      s3 == pushField(s2)
                  IN  IF StartsRow(s3) THEN pushRow(s3) ELSE s3
        ELSE [s1 EXCEPT !.field = Append(st.field, c)]

RECURSIVE ScanLoop(_, _)
ScanLoop(text, st) ==
    IF st.i <= Len(text) THEN ScanLoop(text, ScanStep(text, st)) ELSE st

\* the rows array once the last field and row are flushed
ScanRows(text) ==
    LET st == ScanLoop(text, ScanInit)
    IN  IF Len(st.field) > 0 \/ Len(st.row) > 0
        THEN pushRow(pushField(st)).rows ELSE st.rows

\* the object built for one data row: a later column of the same name wins
RowObject(header, row) ==
    [h \in Range(header) |->
        LET idx == CHOOSE j \in DOMAIN header :
                      /\ header[j] = h
                      /\ \A j2 \in DOMAIN header : header[j2] = h => j2 <= j
        IN  Coalesce(At(row, idx), <<>>)]

\* Object.values(obj).join("").trim().length: some value has a visible character
RowHasText(obj) ==
    \E h \in DOMAIN obj : Trim(obj[h]) # <<>>

parseCSV(text) ==
    LET rows   == ScanRows(text)
        header == [j \in DOMAIN rows[1] |-> ToLowerCase(Trim(rows[1][j]))]
        objs   == [r \in 1..(Len(rows) - 1) |-> RowObject(header, rows[r + 1])]
    IN  IF rows = <<>> THEN <<>> ELSE SelectSeq(objs, RowHasText)

----------------------------------------------------------------------------
(* Category normaliser *)

normalizeCategory(c, cats) ==
    IF ~Truthy(c) THEN S_Other
    ELSE LET t     == ToLowerCase(Trim(c))
             found == { j \in DOMAIN cats : ToLowerCase(cats[j]) = t }
         IN  IF found # {}
             THEN cats[CHOOSE j \in found : \A j2 \in found : j <= j2]
             ELSE Trim(c)

----------------------------------------------------------------------------
(* Handlers of the working collection *)

\* r[key] of a parsed CSV row
Get(r, key) == IF key \in DOMAIN r THEN r[key] ELSE Undefined

\* a || b || c || d || ""
Or4(a, b, c, d) == OrElse(a, OrElse(b, OrElse(c, OrElse(d, <<>>))))

\* sub occurs in s
Contains(s, sub) ==
    \E i \in 0..(Len(s) - Len(sub)) : SubSeq(s, i + 1, i + Len(sub)) = sub

\* /true|yes|y|1/i.test(s)
TruthyPattern(s) ==
    LET t == ToLowerCase(s)
    IN  \/ Contains(t, <<"t","r","u","e">>)
        \/ Contains(t, <<"y","e","s">>)
        \/ Contains(t, <<"y">>)
        \/ Contains(t, <<"1">>)

\* optional chaining: v?.trim() || ""
TrimOrEmpty(v) == IF v = Undefined THEN <<>> ELSE OrElse(Trim(v), <<>>)

\* !!v of an optional flag, given as "true", "false" or "undefined"
NotNot(v) == v = "true"

addItem(partial) ==
    LET it == [ id        |-> nextUid,
                name      |-> Trim(OrElse(partial.name, <<>>)),
                quantity  |-> TrimOrEmpty(partial.quantity),
                unit      |-> TrimOrEmpty(partial.unit),
                category  |-> OrElse(partial.category, S_Other),
                notes     |-> TrimOrEmpty(partial.notes),
                have      |-> NotNot(partial.have),
                checked   |-> NotNot(partial.checked),
                createdAt |-> clock ]
    IN  /\ items' = IF Truthy(it.name) THEN <<it>> \o items ELSE items
        /\ nextUid' = nextUid + 1
        /\ clock' = clock + 1
        /\ last' = [op |-> "addItem", arg |-> partial, before |-> items]
        /\ UNCHANGED categories

removeItem(id) ==
    /\ items' = SelectSeq(items, LAMBDA it : it.id # id)
    /\ last' = [op |-> "removeItem", arg |-> id, before |-> items]
    /\ UNCHANGED <<categories, nextUid, clock>>

clearChecked ==
    /\ items' = SelectSeq(items, LAMBDA it : ~it.checked)
    /\ last' = [op |-> "clearChecked", before |-> items]
    /\ UNCHANGED <<categories, nextUid, clock>>

\* a slip in NameOf: the name column is read before the item column
NameOfNameFirst(r) ==
    Or4(Get(r, H_name), Get(r, H_item), Get(r, H_product), Get(r, H_ingredient))

\* the alias columns of a parsed row r, first non-empty one wins
NameOf(r) ==
    Or4(Get(r, H_item), Get(r, H_name), Get(r, H_product), Get(r, H_ingredient))

QuantityOf(r) == Or4(Get(r, H_qty), Get(r, H_quantity), Get(r, H_amount), <<>>)

UnitOf(r) == Or4(Get(r, H_unit), Get(r, H_units), <<>>, <<>>)

CategoryOf(r) ==
    Or4(Get(r, H_category), Get(r, H_section), Get(r, H_aisle), Get(r, H_dept))

NotesOf(r) == Or4(Get(r, H_notes), Get(r, H_note), Get(r, H_details), <<>>)

\* the record importCSV builds from the n-th parsed row
CsvItem(r, n) ==
    [ id        |-> nextUid + n - 1,
      name      |-> Trim(NameOf(r)),
      quantity  |-> Trim(OrElse(QuantityOf(r), <<>>)),
      unit      |-> Trim(OrElse(UnitOf(r), <<>>)),
      category  |-> normalizeCategory(CategoryOf(r), categories),
      notes     |-> Trim(OrElse(NotesOf(r), <<>>)),
      have      |-> TruthyPattern(OrElse(Get(r, H_have), <<>>)),
      checked   |-> TruthyPattern(OrElse(Get(r, H_checked), <<>>)),
      createdAt |-> clock ]

\* rows.map(...).filter(x => x.name)
CsvMapped(text) ==
    LET rows == parseCSV(text)
    IN  SelectSeq([n \in DOMAIN rows |-> CsvItem(rows[n], n)],
                  LAMBDA x : Truthy(x.name))

importCSV(text) ==
    /\ items' = CsvMapped(text) \o items
    /\ nextUid' = nextUid + Len(parseCSV(text))
    /\ clock' = clock + 1
    /\ last' = [op |-> "importCSV", arg |-> text, before |-> items]
    /\ UNCHANGED categories

----------------------------------------------------------------------------
(* Freeform line importer: handlePaste *)

\* one piece of text.split(/\r?\n/): a carriage return right before the
\* line feed belongs to the separator
StripCR(piece) ==
    IF piece # <<>> /\ piece[Len(piece)] = "\r"
    THEN Take(piece, Len(piece) - 1) ELSE piece

SplitLines(text) ==
    LET pieces == SplitChar(text, "\n")
    IN  [j \in DOMAIN pieces |->
            IF j < Len(pieces) THEN StripCR(pieces[j]) ELSE pieces[j]]

\* left.match(/^\s*(\d+[\d\/\.]*)\s+([a-zA-Z]+)\s+(.+)$/): ok says whether it
\* matched, g1..g3 are the groups.  Every quantifier is greedy; only the last
\* \s+ can give characters back, to let (.+) match at least one.
MatchLine(left) ==
    LET s1 == Drop(left, SpanLen(left, "\\s"))
        n1 == IF SpanLen(s1, "\\d") >= 1 THEN SpanLen(s1, "[\\d/.]") ELSE 0
        s2 == Drop(s1, n1)
        w1 == SpanLen(s2, "\\s")
        s3 == Drop(s2, w1)
        n2 == SpanLen(s3, "[a-zA-Z]")
        s4 == Drop(s3, n2)
        w2 == SpanLen(s4, "\\s")
        \* the ways to cut s4 into \s+ (its first j characters) and (.+)
        cuts == { j \in 1..w2 :
                    /\ j < Len(s4)
                    /\ \A i \in (j + 1)..Len(s4) : IsDot(s4[i]) }
        j  == CHOOSE c \in cuts : \A c2 \in cuts : c2 <= c
    IN  IF n1 >= 1 /\ w1 >= 1 /\ n2 >= 1 /\ cuts # {}
        THEN [ok |-> TRUE, g1 |-> Take(s1, n1), g2 |-> Take(s3, n2), g3 |-> Drop(s4, j)]
        ELSE [ok |-> FALSE, g1 |-> <<>>, g2 |-> <<>>, g3 |-> <<>>]

\* the record the loop body pushes for the n-th kept line; it has no notes
PasteItem(line, n) ==
    LET parts == SplitChar(line, "|")
        left  == parts[1]
        right == At(parts, 2)
        m     == MatchLine(left)
    IN  [ id        |-> nextUid + n - 1,
          name      |-> IF m.ok THEN m.g3 ELSE Trim(left),
          quantity  |-> IF m.ok THEN m.g1 ELSE <<>>,
          unit      |-> IF m.ok THEN m.g2 ELSE <<>>,
          category  |-> OrElse(IF right = Undefined THEN Undefined ELSE Trim(right),
                               S_Other),
          notes     |-> Undefined,
          have      |-> FALSE,
          checked   |-> FALSE,
          createdAt |-> clock ]

\* text.split(/\r?\n/).map(l => l.trim()).filter(Boolean)
PasteRows(text) ==
    LET lines == SplitLines(text)
    IN  FilterBoolean([j \in DOMAIN lines |-> Trim(lines[j])])

PasteParsed(text) ==
    LET rows == PasteRows(text)
    IN  [n \in DOMAIN rows |-> PasteItem(rows[n], n)]

handlePaste(text) ==
    /\ items' = PasteParsed(text) \o items
    /\ nextUid' = nextUid + Len(PasteRows(text))
    /\ clock' = clock + 1
    /\ last' = [op |-> "handlePaste", arg |-> text, before |-> items]
    /\ UNCHANGED categories

----------------------------------------------------------------------------
(* Bounds and inputs *)

\* uid() calls in one run of the application
MaxUid == 3

\* items in a stored collection handed to the consolidator
MaxItems == 3

\* items sharing one key handed to the consolidator
MaxMerge == 2

Tpl(name, quantity, unit, category, notes, flag) ==
    [ id |-> 0, name |-> name, quantity |-> quantity, unit |-> unit,
      category |-> category, notes |-> notes, have |-> flag, checked |-> flag,
      createdAt |-> 0 ]

\* a stored collection: every record has its own id and creation time
Stored(ts) == [j \in DOMAIN ts |-> [ts[j] EXCEPT !.id = j, !.createdAt = j]]

StoredLists(pool, n) == { Stored(ts) : ts \in UNION { [1..k -> pool] : k \in 0..n } }

\* items that differ in name and category: equal keys up to case, distinct
\* keys, and names and categories that contain the key separator
KeyPool ==
    { Tpl(<<"a">>, <<"1">>, <<>>, <<"c">>, <<>>, TRUE),
      Tpl(<<"A">>, <<"2">>, <<>>, <<"C">>, <<"n">>, FALSE),
      Tpl(<<"a">>, <<"1",".","5">>, <<"g">>, <<"c">>, <<>>, TRUE),
      Tpl(<<"b">>, <<>>, <<>>, <<"c">>, <<>>, FALSE),
      Tpl(<<"a","|","b">>, <<"2">>, <<"g">>, <<"c">>, <<>>, FALSE),
      Tpl(<<"a">>, <<"x">>, <<"g">>, <<"b","|","c">>, <<"n">>, TRUE),
      Tpl(<<"A">>, <<"x">>, <<>>, <<"c">>, <<"m">>, FALSE) }

\* items of one key that differ in quantity, unit, notes and flags
MergePool ==
    { Tpl(<<"a">>, q, u, <<"c">>, n, FALSE) :
        q \in { <<>>, <<"1">>, <<"1",".","5">>, <<"x">>, <<"2","x">> },
        u \in { <<>>, <<"g">> },
        n \in { <<>>, <<"n">> } }
    \cup { Tpl(<<"a">>, <<"2">>, <<"g">>, <<"c">>, Undefined, TRUE),
           Tpl(<<"a">>, <<".","5">>, <<"l">>, <<"c">>, <<"m">>, TRUE) }

----------------------------------------------------------------------------
(* The consolidator on stored collections *)

InitConsolidate ==
    /\ items \in StoredLists(KeyPool, MaxItems) \cup StoredLists(MergePool, MaxMerge)
    /\ categories = DEFAULT_CATEGORIES
    /\ nextUid = Len(items) + 1
    /\ clock = Len(items) + 1
    /\ last = [op |-> "load"]

NextConsolidate == ConsolidateDuplicates

SpecConsolidate == InitConsolidate /\ [][NextConsolidate]_vars

----------------------------------------------------------------------------
(* The application: handlers on the working collection *)

\* what QuickAdd submits: five strings, no flags
Partial(name, quantity) ==
    [ name |-> name, quantity |-> quantity, unit |-> <<>>,
      category |-> DEFAULT_CATEGORIES[1], notes |-> <<>>,
      have |-> "undefined", checked |-> "undefined" ]

AddInputs ==
    { Partial(n, q) : n \in { <<"a">>, <<" ">>, <<" ","A"," ">> },
                      q \in { <<>>, <<" ","1">> } }
    \cup { [ name |-> Undefined, quantity |-> Undefined, unit |-> Undefined,
             category |-> Undefined, notes |-> Undefined,
             have |-> "true", checked |-> "false" ] }

\* clipboard texts:
\*   a
\*   | c
\*   2 g a | c
\*   2 g  | c
\*   A\r\n\n1.5 g a
PasteInputs ==
    { <<"a">>,
      <<"|"," ","c">>,
      <<"2"," ","g"," ","a"," ","|"," ","c">>,
      <<"2"," ","g"," "," ","|"," ","c">>,
      <<"A","\r","\n","\n","1",".","5"," ","g"," ","a">> }

\* CSV files:
\*   name,qty\na,1\n
\*   item,checked\n ,TRUE\na,yes
\*   name,category\nA, \n
\*   name\na\nb\n
CsvInputs ==
    { <<"n","a","m","e",",","q","t","y","\n","a",",","1","\n">>,
      <<"i","t","e","m",",","c","h","e","c","k","e","d","\n"," ",",","T","R","U","E","\n","a",",","y","e","s">>,
      <<"n","a","m","e",",","c","a","t","e","g","o","r","y","\n","A",","," ","\n">>,
      <<"n","a","m","e","\n","a","\n","b","\n">> }

Init ==
    /\ items = <<>>
    /\ categories = DEFAULT_CATEGORIES
    /\ nextUid = 1
    /\ clock = 1
    /\ last = [op |-> "load"]

AddItem == \E partial \in AddInputs : nextUid <= MaxUid /\ addItem(partial)

ImportCSV ==
    \E text \in CsvInputs :
        nextUid + Len(parseCSV(text)) <= MaxUid + 1 /\ importCSV(text)

HandlePaste ==
    \E text \in PasteInputs :
        nextUid + Len(PasteRows(text)) <= MaxUid + 1 /\ handlePaste(text)

RemoveItem == \E j \in DOMAIN items : removeItem(items[j].id)

ClearChecked == clearChecked

Next ==
    \/ AddItem
    \/ ImportCSV
    \/ HandlePaste
    \/ RemoveItem
    \/ ClearChecked
    \/ ConsolidateDuplicates

Spec == Init /\ [][Next]_vars

----------------------------------------------------------------------------
(* The CSV codec on stored collections: export, then read the file back *)

\* items in an exported collection
MaxCsvItems == 2

\* items whose fields hold commas, quotes, line breaks, blanks or nothing
CsvPool ==
    { Tpl(<<"a">>, <<"1">>, <<"g">>, <<"c">>, <<>>, FALSE),
      Tpl(<<"a",",","b">>, <<>>, <<>>, <<"c">>, Undefined, TRUE),
      Tpl(<<"\"">>, <<"\"","\"">>, <<>>, <<",">>, <<"x","\"">>, FALSE),
      Tpl(<<"a","\n","b">>, <<>>, <<"\r">>, <<"\r","\n">>, <<"\n">>, TRUE),
      Tpl(<<>>, <<>>, <<>>, <<>>, <<>>, FALSE),
      Tpl(<<" ","a"," ">>, <<" ">>, <<>>, <<"c">>, <<",","\"","\n">>, FALSE),
      [Tpl(<<"\"","a","\"">>, <<"1">>, <<>>, <<"c">>, <<"\"",",","\"">>, TRUE)
          EXCEPT !.checked = FALSE] }

InitCSV ==
    /\ items \in StoredLists(CsvPool, MaxCsvItems)
    /\ categories = DEFAULT_CATEGORIES
    /\ nextUid = Len(items) + 1
    /\ clock = Len(items) + 1
    /\ last = [op |-> "load"]

\* exportCSV: the file handed to download()
exportCSV ==
    /\ last.op = "load"
    /\ last' = [op |-> "exportCSV", text |-> toCSV(items)]
    /\ UNCHANGED <<items, categories, nextUid, clock>>

\* parseCSV on the text of the exported file
parseExported ==
    /\ last.op = "exportCSV"
    /\ last' = [op |-> "parseCSV", arg |-> last.text, out |-> parseCSV(last.text)]
    /\ UNCHANGED <<items, categories, nextUid, clock>>

NextCSV == exportCSV \/ parseExported

SpecCSV == InitCSV /\ [][NextCSV]_vars

----------------------------------------------------------------------------
(* The category normaliser on labels and category lists *)

\* characters in a category label
MaxLabelLen == 3

LabelChars == { " ", "d", "D", "e" }

Labels == UNION { [1..k -> LabelChars] : k \in 0..MaxLabelLen }

\* category lists as the editor can leave them: empty, with entries that
\* differ only in case, with a blank in an entry, with an empty entry
CategoryLists ==
    { <<>>,
      << <<"D","e">> >>,
      << <<"d","E">>, <<"D","e">>, <<"d">> >>,
      << <<" ","d">>, <<"E">> >>,
      << <<"D">>, <<>> >>,
      DEFAULT_CATEGORIES }

InitNormalize ==
    /\ items = <<>>
    /\ categories \in CategoryLists
    /\ nextUid = 1
    /\ clock = 1
    /\ last = [op |-> "load"]

NormalizeCategory ==
    \E c \in Labels :
        /\ last' = [op |-> "normalizeCategory", arg |-> c,
                    out |-> normalizeCategory(c, categories)]
        /\ UNCHANGED <<items, categories, nextUid, clock>>

NextNormalize == NormalizeCategory

SpecNormalize == InitNormalize /\ [][NextNormalize]_vars

----------------------------------------------------------------------------
(* The line importer on pasted texts *)

\* pieces a pasted text is put together from
MaxTokens == 4

PasteTokens ==
    { <<"2"," ">>,
      <<"2"," ","g"," ">>,
      <<"a"," ">>,
      <<"|"," ">>,
      <<"c">>,
      <<"|">>,
      <<"\n">> }

RECURSIVE Flatten(_)
Flatten(ss) == IF ss = <<>> THEN <<>> ELSE Head(ss) \o Flatten(Tail(ss))

\* the clipboard hands over non-empty texts only
PasteTexts ==
    { Flatten(ts) : ts \in UNION { [1..k -> PasteTokens] : k \in 1..MaxTokens } }

\* the first thing done after the application has loaded
PasteFirst == \E text \in PasteTexts : last.op = "load" /\ handlePaste(text)

NextPaste == PasteFirst

SpecPaste == Init /\ [][NextPaste]_vars

----------------------------------------------------------------------------
(* The CSV importer on files with several alias columns of one field *)

\* the alias columns of each field, in the order the format description
\* lists them
AliasGroups ==
    << <<H_name, H_item, H_product, H_ingredient>>,
       <<H_qty, H_quantity, H_amount>>,
       <<H_unit, H_units>>,
       <<H_category, H_section, H_aisle, H_dept>>,
       <<H_notes, H_note, H_details>> >>

Reverse(a) == [j \in DOMAIN a |-> a[Len(a) + 1 - j]]

\* a file with the columns of group g (and a name column when g is not the
\* name group): the j-th alias column holds the j-th letter when j is in
\* filled, nothing otherwise; the columns are reversed when rev
AliasCases ==
    UNION { { [g |-> g, filled |-> f, rev |-> r] :
                f \in SUBSET (DOMAIN AliasGroups[g]), r \in BOOLEAN } :
            g \in DOMAIN AliasGroups }

AliasValue(case, j) == IF j \in case.filled THEN <<Lowers[j]>> ELSE <<>>

AliasText(case) ==
    LET cols  == AliasGroups[case.g]
        vals  == [j \in DOMAIN cols |-> AliasValue(case, j)]
        hdr   == IF case.rev THEN Reverse(cols) ELSE cols
        row   == IF case.rev THEN Reverse(vals) ELSE vals
        hdr2  == IF case.g = 1 THEN hdr ELSE hdr \o <<H_ingredient>>
        row2  == IF case.g = 1 THEN row ELSE row \o << <<"z">> >>
    IN  Join(hdr2, <<",">>) \o <<"\n">> \o Join(row2, <<",">>)

AliasTexts == { AliasText(case) : case \in AliasCases }

\* the first thing done after the application has loaded
ImportFirst == \E text \in AliasTexts : last.op = "load" /\ importCSV(text)

NextImport == ImportFirst

SpecImport == Init /\ [][NextImport]_vars

----------------------------------------------------------------------------
(* The CSV parser on the text of a chosen file *)

MaxTextLen == 5

CsvChars == { "a", ",", "\n", "\r", "\"" }

\* every text of up to MaxTextLen characters
ShortTexts == UNION { [1..n -> CsvChars] : n \in 0..MaxTextLen }

GapCells == { <<>>, <<"a">>, <<"1">> }

GapEols == { <<"\n">>, <<"\r", "\n">> }

\* a data row of two cells
GapRows == { <<c1, c2>> : c1 \in GapCells, c2 \in GapCells }

\* a file of the columns n and q with two data rows, and the same file with
\* an empty line between the two
GapCases ==
    { [r1 |-> r1, r2 |-> r2, eol |-> eol, gap |-> gap] :
        r1 \in GapRows, r2 \in GapRows, eol \in GapEols, gap \in BOOLEAN }

GapText(c) ==
    <<"n", ",", "q">> \o c.eol \o c.r1[1] \o <<",">> \o c.r1[2] \o c.eol
        \o (IF c.gap THEN c.eol ELSE <<>>) \o c.r2[1] \o <<",">> \o c.r2[2]

ParseTexts == ShortTexts \cup { GapText(c) : c \in GapCases }

\* the first thing done after the application has loaded: a file is chosen
\* and its text is parsed
ParseFirst ==
    \E text \in ParseTexts :
        /\ last.op = "load"
        /\ last' = [op |-> "parseText", arg |-> text, out |-> parseCSV(text)]
        /\ UNCHANGED <<items, categories, nextUid, clock>>

NextParse == ParseFirst

SpecParse == Init /\ [][NextParse]_vars

----------------------------------------------------------------------------
(* Observation of the parser's loop *)

\* the scanner when the while loop has made k turns (or has ended before)
RECURSIVE ScanAfter(_, _)
ScanAfter(text, k) ==
    IF k = 0 THEN ScanInit
    ELSE LET p == ScanAfter(text, k - 1)
         IN  IF p.i <= Len(text) THEN ScanStep(text, p) ELSE p

Parsing == last.op = "parseText"

----------------------------------------------------------------------------
(* Observation of the consolidator's loop *)

\* the positions of its at which the loop merges instead of inserting
MergeSteps(its) ==
    { n \in DOMAIN its :
        \E j \in DOMAIN ConsolidateMap(its, n - 1) :
            ConsolidateMap(its, n - 1)[j].k = Key(its[n]) }

\* map.get(k) for the key of its[n], read when the loop has processed its[1..m]
Kept(its, n, m) ==
    LET map == ConsolidateMap(its, m)
    IN  map[CHOOSE j \in DOMAIN map : map[j].k = Key(its[n])].v

Consolidating == last.op = "consolidateDuplicates"

\* a || "" of a string that may be absent
Str(v) == IF v = Undefined THEN <<>> ELSE v

----------------------------------------------------------------------------
(* Properties *)

\* C1: in every state reached from the empty collection by addItem,
\* importCSV, handlePaste, removeItem, clearChecked and
\* consolidateDuplicates, every record's name is non-empty after trimming
\* (so an input with no usable name has added no record).
C1_NamesNonEmpty ==
    \A j \in DOMAIN items : Trim(Str(items[j].name)) # <<>>

\* the (lowercased name, lowercased category) pair of an item
Pair(it) == <<ToLowerCase(Str(it.name)), ToLowerCase(Str(it.category))>>

FirstWith(its, pr) ==
    CHOOSE n \in DOMAIN its :
        Pair(its[n]) = pr /\ \A n2 \in DOMAIN its : Pair(its[n2]) = pr => n <= n2

\* C2: after consolidateDuplicates the collection has exactly one record for
\* each distinct (lowercased name, lowercased category) pair that was present
\* before, in the order of the pairs' first occurrences, and each record has
\* the id, name, category and createdAt of the first item of its pair.
C2_OnePerPair ==
    Consolidating =>
        LET before == last.before
            pairs  == { Pair(before[n]) : n \in DOMAIN before }
        IN  /\ Len(items) = Cardinality(pairs)
            /\ { Pair(items[j]) : j \in DOMAIN items } = pairs
            /\ \A i, j \in DOMAIN items :
                  i < j => FirstWith(before, Pair(items[i]))
                             < FirstWith(before, Pair(items[j]))
            /\ \A j \in DOMAIN items :
                  LET f == before[FirstWith(before, Pair(items[j]))]
                  IN  /\ items[j].id = f.id
                      /\ items[j].name = f.name
                      /\ items[j].category = f.category
                      /\ items[j].createdAt = f.createdAt

\* the merge at position n of its falls under the numeric rule
NumericRule(its, n) ==
    LET cur == Kept(its, n, n - 1)
    IN  /\ Str(cur.quantity) # <<>>
        /\ Str(its[n].quantity) # <<>>
        /\ cur.unit = its[n].unit

\* old with piece appended after "; ", empty pieces skipped
Appended(old, piece) ==
    IF Str(piece) = <<>> THEN Str(old)
    ELSE IF Str(old) = <<>> THEN piece
    ELSE old \o <<";", " ">> \o piece

\* x and y are the same number, whatever their scales
SameNumber(x, y) ==
    /\ x.nan = y.nan
    /\ x.m * Pow10(y.e) = y.m * Pow10(x.e)

\* C3: at every merge of consolidateDuplicates where the kept and the
\* incoming item both have a quantity and have the same unit: if both
\* quantities parse as numbers the kept quantity becomes the string of their
\* sum ("1" and "2" give "3") and the unit stays; otherwise the kept quantity
\* stays and the incoming quantity string is appended to the kept notes
\* with "; ", empty pieces skipped.
C3_NumericMerge ==
    Consolidating =>
        \A n \in MergeSteps(last.before) :
            NumericRule(last.before, n) =>
                LET it  == last.before[n]
                    cur == Kept(last.before, n, n - 1)
                    new == Kept(last.before, n, n)
                    a   == ParseFloat(cur.quantity)
                    b   == ParseFloat(it.quantity)
                IN  IF ~a.nan /\ ~b.nan
                    THEN /\ SameNumber(ParseFloat(new.quantity), NumAdd(a, b))
                         /\ new.quantity = NumToString(ParseFloat(new.quantity))
                         /\ (cur.quantity = <<"1">> /\ it.quantity = <<"2">>
                                => new.quantity = <<"3">>)
                         /\ new.unit = cur.unit
                    ELSE /\ new.quantity = cur.quantity
                         /\ new.unit = cur.unit
                         /\ new.notes = Appended(cur.notes, it.quantity)

\* C3 happens: a consolidation summed "1" and "2" to "3" and then met a
\* quantity that does not parse, which went to the notes
C3_SummedThenUnparsed ==
    /\ Consolidating
    /\ Len(last.before) = 3 /\ Len(items) = 1
    /\ last.before[1].quantity = <<"1">>
    /\ last.before[2].quantity = <<"2">>
    /\ last.before[3].quantity = <<"x">>
    /\ items[1].quantity = <<"3">>
    /\ items[1].notes = <<"x">>

\* C4: at every merge of consolidateDuplicates under the other rule (units
\* differ, or one of the two items has no quantity) the kept notes become the
\* old notes, then the incoming quantity and unit (joined by a space if both
\* are present, else whichever is present), then the incoming notes, joined
\* with "; ", empty pieces skipped.
C4_OtherMerge ==
    Consolidating =>
        \A n \in MergeSteps(last.before) :
            ~NumericRule(last.before, n) =>
                LET it  == last.before[n]
                    cur == Kept(last.before, n, n - 1)
                    new == Kept(last.before, n, n)
                    q   == Str(it.quantity)
                    u   == Str(it.unit)
                    qu  == IF q # <<>> /\ u # <<>> THEN q \o <<" ">> \o u
                           ELSE IF q # <<>> THEN q ELSE u
                IN  new.notes = Appended(Appended(cur.notes, qu), it.notes)

\* C5: consolidateDuplicates is idempotent: applied to the collection it has
\* just produced, it yields that collection again.
C5_Idempotent ==
    Consolidating => Consolidated(items) = items

\* C5 happens: a consolidation merged some records and kept several
C5_Merged ==
    /\ Consolidating
    /\ Len(items) >= 2
    /\ Len(items) < Len(last.before)

\* C6: parseCSV(toCSV(items)) has one mapping per item, in the items' order,
\* whose name, quantity, unit, category and notes are the item's field values
\* (the empty string for a missing field) and whose have and checked are
\* "TRUE" or "FALSE" as the item's flags say, whatever commas, double quotes
\* and line breaks the fields contain.
C6_RoundTrip ==
    last.op = "parseCSV" =>
        /\ Len(last.out) = Len(items)
        /\ \A j \in DOMAIN items :
              LET row == last.out[j]
                  it  == items[j]
              IN  /\ DOMAIN row = Range(CsvHeader)
                  /\ row[H_name] = Str(it.name)
                  /\ row[H_quantity] = Str(it.quantity)
                  /\ row[H_unit] = Str(it.unit)
                  /\ row[H_category] = Str(it.category)
                  /\ row[H_notes] = Str(it.notes)
                  /\ row[H_have] = (IF it.have THEN S_TRUE ELSE S_FALSE)
                  /\ row[H_checked] = (IF it.checked THEN S_TRUE ELSE S_FALSE)

\* C6 happens: a file of two items, one with a double quote in its name and
\* one with a line break in its name, has been exported and read back
C6_ReadBack ==
    /\ last.op = "parseCSV"
    /\ Len(items) = 2 /\ Len(last.out) = 2
    /\ "\"" \in Range(items[1].name)
    /\ "\n" \in Range(items[2].name)

\* C7: normalizeCategory returns "Other" for a label that is empty or only
\* white space, else the first list entry equal to the trimmed label ignoring
\* case, else the trimmed label; so never the empty string when the list has
\* no empty entry.
C7_Normalized ==
    last.op = "normalizeCategory" =>
        LET t     == Trim(last.arg)
            same  == { j \in DOMAIN categories :
                         ToLowerCase(categories[j]) = ToLowerCase(t) }
        IN  /\ last.out = ( IF t = <<>> THEN S_Other
                            ELSE IF same # {}
                            THEN categories[CHOOSE j \in same :
                                               \A j2 \in same : j <= j2]
                            ELSE t )
            /\ (\A j \in DOMAIN categories : categories[j] # <<>>)
                  => last.out # <<>>

Pasting == last.op = "handlePaste" /\ last.before = <<>>

\* C8: a pasted line "<number> <unit> <description> | <category>" gives a
\* record with that number as quantity, that unit, the description without
\* surrounding white space as name and the category; a pasted line that is
\* one word gives that word as name, no quantity, no unit, category "Other".
C8_LineFields ==
    Pasting =>
        /\ \A d \in { <<"a">>, <<"c">>, <<"a"," ","c">> } :
              last.arg = <<"2"," ","g"," ">> \o d \o <<" ","|"," ","c">> =>
                  /\ Len(items) = 1
                  /\ items[1].quantity = <<"2">>
                  /\ items[1].unit = <<"g">>
                  /\ items[1].name = d
                  /\ items[1].category = <<"c">>
        /\ \A w \in { <<"a">>, <<"c">> } :
              last.arg = w =>
                  /\ Len(items) = 1
                  /\ items[1].name = w
                  /\ items[1].quantity = <<>>
                  /\ items[1].unit = <<>>
                  /\ items[1].category = S_Other

\* the text of line before its first pipe (all of it when it has none)
BeforePipe(line) == Take(line, SpanLen(line, "|"))

\* the text of line after its first pipe
AfterPipe(line) == Drop(line, SpanLen(line, "|") + 1)

\* C9: handlePaste splits each kept line at its first pipe only: the item is
\* described by the text before the first pipe, and the category is all of
\* the text after the first pipe, trimmed, or "Other" when the line has no
\* pipe or that text is empty after trimming.
C9_FirstPipeOnly ==
    Pasting =>
        LET rows == PasteRows(last.arg)
        IN  /\ Len(items) = Len(rows)
            /\ \A n \in DOMAIN rows :
                  LET alone == PasteItem(BeforePipe(rows[n]), n) IN
                  /\ items[n].name = alone.name
                  /\ items[n].quantity = alone.quantity
                  /\ items[n].unit = alone.unit
                  /\ items[n].category =
                        ( IF "|" \notin Range(rows[n])
                             \/ Trim(AfterPipe(rows[n])) = <<>>
                          THEN S_Other
                          ELSE Trim(AfterPipe(rows[n])) )

\* the value the import takes for the field of case.g when the alias columns
\* are tried in the given order (positions in the group)
FirstFilled(case, order) ==
    LET tried == SelectSeq(order, LAMBDA j : j \in case.filled)
    IN  IF tried = <<>> THEN <<>> ELSE AliasValue(case, tried[1])

\* the record imported from AliasText(case) has taken val for the field
Imported(case, val) ==
    CASE case.g = 1 -> IF val = <<>> THEN items = <<>>
                       ELSE Len(items) = 1 /\ items[1].name = val
      [] case.g = 2 -> Len(items) = 1 /\ items[1].quantity = val
      [] case.g = 3 -> Len(items) = 1 /\ items[1].unit = val
      [] case.g = 4 -> Len(items) = 1
                       /\ items[1].category = (IF val = <<>> THEN S_Other ELSE val)
      [] case.g = 5 -> Len(items) = 1 /\ items[1].notes = val

Importing == last.op = "importCSV" /\ last.before = <<>>

\* C10 as stated: with several alias columns of a field filled, importCSV
\* takes the first in the order name, item, product, ingredient; qty,
\* quantity, amount; unit, units; category, section, aisle, dept; notes,
\* note, details.
C10_ListedOrder ==
    Importing =>
        \A case \in AliasCases :
            last.arg = AliasText(case) =>
                Imported(case, FirstFilled(case,
                    [j \in DOMAIN AliasGroups[case.g] |-> j]))

\* C10 as amended: the same, except that the name is taken from item, then
\* name, then product, then ingredient.
C10_ItemFirst ==
    Importing =>
        \A case \in AliasCases :
            last.arg = AliasText(case) =>
                Imported(case, FirstFilled(case,
                    IF case.g = 1 THEN <<2, 1, 3, 4>>
                    ELSE [j \in DOMAIN AliasGroups[case.g] |-> j]))

\* C10 happens: a file whose name and item columns are both filled has been
\* imported, and the record has the item column's value
C10_BothFilled ==
    /\ Importing
    /\ \E case \in AliasCases :
          /\ case.g = 1 /\ {1, 2} \subseteq case.filled
          /\ last.arg = AliasText(case)
    /\ Len(items) = 1
    /\ items[1].name = <<"b">>

\* C11: in every state reached from the empty collection, every record has
\* quantity, unit, category and notes present as strings and have and checked
\* present as booleans: no field of a record is undefined.
C11_FieldsPresent ==
    \A j \in DOMAIN items :
        /\ items[j].name # Undefined
        /\ items[j].quantity # Undefined
        /\ items[j].unit # Undefined
        /\ items[j].category # Undefined
        /\ items[j].notes # Undefined
        /\ items[j].have \in BOOLEAN
        /\ items[j].checked \in BOOLEAN

\* the loop is about to read a line terminator outside quotes
AtTerminator(text, st) ==
    /\ st.i <= Len(text)
    /\ ~st.inQuotes
    /\ text[st.i] \in {"\n", "\r"}

\* the characters one terminator takes: "\r\n" counts once
TerminatorLen(text, st) ==
    IF text[st.i] = "\r" /\ CharAt(text, st.i + 1) = "\n" THEN 2 ELSE 1

\* the terminator ended the field and the row, and a new row starts
RowStarted(st, st2) ==
    /\ st2.rows = Append(st.rows, Append(st.row, st.field))
    /\ st2.row = <<>>
    /\ st2.field = <<>>

\* the terminator ended the field only, and the row keeps accumulating
RowContinued(st, st2) ==
    /\ st2.rows = st.rows
    /\ st2.row = Append(st.row, st.field)
    /\ st2.field = <<>>

\* C12: in parseCSV, a line terminator outside quotes ("\n", "\r", or "\r\n"
\* counted once) starts a new logical row exactly when at least one row has
\* already been completed or the accumulated row (with the field the
\* terminator ends) has more than one field; otherwise it only ends the
\* current field and the row keeps accumulating.
C12_NotFirstOrWide ==
    Parsing =>
        \A k \in 0..Len(last.arg) :
            LET st  == ScanAfter(last.arg, k)
                st2 == ScanAfter(last.arg, k + 1)
            IN  AtTerminator(last.arg, st) =>
                    /\ st2.i = st.i + TerminatorLen(last.arg, st)
                    /\ IF Len(st.rows) >= 1 \/ Len(st.row) + 1 > 1
                       THEN RowStarted(st, st2) ELSE RowContinued(st, st2)

\* C12, amended: the terminator starts a new logical row exactly when no row
\* has been completed yet or the accumulated row (with the field the
\* terminator ends) has more than one field; otherwise it only ends the
\* current field and the row keeps accumulating.
C12_FirstOrWide ==
    Parsing =>
        \A k \in 0..Len(last.arg) :
            LET st  == ScanAfter(last.arg, k)
                st2 == ScanAfter(last.arg, k + 1)
            IN  AtTerminator(last.arg, st) =>
                    /\ st2.i = st.i + TerminatorLen(last.arg, st)
                    /\ IF Len(st.rows) = 0 \/ Len(st.row) + 1 > 1
                       THEN RowStarted(st, st2) ELSE RowContinued(st, st2)

\* a text whose first terminator ends a one-field row and starts a new row,
\* and in which a later terminator ends a one-field line without starting one
C12_BothKinds ==
    /\ Parsing
    /\ \E k \in 0..Len(last.arg) :
          LET st == ScanAfter(last.arg, k)
          IN  /\ AtTerminator(last.arg, st)
              /\ Len(st.rows) = 0 /\ st.row = <<>> /\ st.field # <<>>
              /\ Len(ScanAfter(last.arg, k + 1).rows) = 1
    /\ \E k \in 0..Len(last.arg) :
          LET st == ScanAfter(last.arg, k)
          IN  /\ AtTerminator(last.arg, st)
              /\ Len(st.rows) >= 1 /\ st.row = <<>> /\ st.field # <<>>
              /\ ScanAfter(last.arg, k + 1).rows = st.rows
              /\ ScanAfter(last.arg, k + 1).row = <<st.field>>

\* C13: parseCSV drops an empty row without affecting the other rows: for a
\* text with a header and two data rows, the text with an empty line
\* inserted between the two data rows parses to the mappings of the text
\* without it, no mapping more and the mappings before and after the same.
C13_EmptyLineIgnored ==
    Parsing =>
        \A c \in GapCases :
            (c.gap /\ last.arg = GapText(c)) =>
                last.out = parseCSV(GapText([c EXCEPT !.gap = FALSE]))

\* the kept record's notes hold the notes of its[n] once its[n] is merged,
\* and the result's record of that key still holds them
NotesKept(its, n) ==
    /\ Contains(Str(Kept(its, n, n).notes), its[n].notes)
    /\ Contains(Str(Kept(its, n, Len(its)).notes), its[n].notes)

\* C14: whenever consolidateDuplicates merges an incoming item whose notes
\* are non-empty, the incoming notes text is contained in the kept item's
\* notes afterwards, whichever rule applied (numeric sum, unparseable
\* quantity, or differing units).
C14_NotesNeverLost ==
    Consolidating =>
        \A n \in MergeSteps(last.before) :
            Truthy(last.before[n].notes) => NotesKept(last.before, n)

====
